---- MODULE Spec2Model ----
(***************************************************************************)
(* Model of transcribe.py: main, transcribe_multiple_files,               *)
(* transcribe_audio and convert_mp3_to_wav.                                *)
(*                                                                         *)
(* Strings (paths, glob patterns, transcripts) are sequences of one-       *)
(* character strings, so that lower(), endswith(), strip(), splitext()     *)
(* and glob matching are computed character by character.  The empty       *)
(* sequence stands for Python's None / "" wherever the code only tests     *)
(* truthiness.  Paths are POSIX paths (case-sensitive file system).        *)
(*                                                                         *)
(* The external collaborators (ffmpeg, the whisper model, the file system  *)
(* calls that can fail) answer nondeterministically.                       *)
(***************************************************************************)
EXTENDS Naturals, Sequences, FiniteSets

(***************************************************************************)
(* Bounds                                                                  *)
(***************************************************************************)
\* largest number of audio files present in the working directory
MaxFiles == 2

(***************************************************************************)
(* Strings of the model                                                    *)
(***************************************************************************)
A_MP3 == <<"a", ".", "m", "p", "3">>
A_WAV == <<"a", ".", "w", "a", "v">>
B_MP3 == <<"b", ".", "m", "p", "3">>
B_MP3_UPPER == <<"b", ".", "M", "P", "3">>
\* a path that is never present in the working directory
Z_MP3 == <<"z", ".", "m", "p", "3">>

\* the audio files that may be present in the working directory
Names == {A_MP3, A_WAV, B_MP3, B_MP3_UPPER}

\* the values the positional argument may take on the command line
Positionals == {A_MP3, A_WAV, Z_MP3}

\* the values --pattern may take on the command line
Patterns == { <<"*", ".", "m", "p", "3">>,
              <<"a", ".", "*">>,
              <<"*">>,
              <<>> }

\* the texts the speech model may return
RawTexts == { <<" ", "\n">>,
              <<" ", "x", "\n">>,
              <<"y", " ", "y">> }

\* content of a transcript file left by an earlier run
OldText == <<"o">>

Whitespace == {" ", "\t", "\n", "\r"}

UpperLetters == <<"A", "B", "M", "P", "V", "W">>
LowerLetters == <<"a", "b", "m", "p", "v", "w">>

Digits == <<"1", "2", "3", "4", "5", "6", "7", "8", "9">>

(***************************************************************************)
(* Pure helpers: the string and path functions the code calls              *)
(***************************************************************************)
\* str.lower(), one character
LowerChar(c) ==
    IF \E i \in 1..Len(UpperLetters) : UpperLetters[i] = c
    THEN LowerLetters[CHOOSE i \in 1..Len(UpperLetters) : UpperLetters[i] = c]
    ELSE c

\* str.lower()
Lower(s) == [i \in 1..Len(s) |-> LowerChar(s[i])]

\* str.endswith(suffix)
EndsWith(s, suffix) ==
    /\ Len(s) >= Len(suffix)
    /\ SubSeq(s, Len(s) - Len(suffix) + 1, Len(s)) = suffix

\* variant: the extension is compared without lower()
IsMp3_CaseSensitive(p) == EndsWith(p, <<".", "m", "p", "3">>)

\* audio_file_path.lower().endswith('.mp3')
IsMp3(p) == EndsWith(Lower(p), <<".", "m", "p", "3">>)

RECURSIVE LStrip(_)
LStrip(s) ==
    IF s # <<>> /\ Head(s) \in Whitespace THEN LStrip(Tail(s)) ELSE s

RECURSIVE RStrip(_)
RStrip(s) ==
    IF s # <<>> /\ s[Len(s)] \in Whitespace
    THEN RStrip(SubSeq(s, 1, Len(s) - 1))
    ELSE s

\* variant: lstrip() in place of strip()
Strip_LeftOnly(s) == LStrip(s)

\* str.strip()
Strip(s) == RStrip(LStrip(s))

\* str.rfind(c), 1-based, 0 when absent
RFind(s, c) ==
    IF \E i \in 1..Len(s) : s[i] = c
    THEN CHOOSE i \in 1..Len(s) : s[i] = c /\ \A j \in (i+1)..Len(s) : s[j] # c
    ELSE 0

\* os.path.splitext(p)[0]
SplitExtRoot(p) ==
    LET sep == RFind(p, "/")
        dot == RFind(p, ".")
    IN  IF dot > sep /\ \E k \in (sep+1)..(dot-1) : p[k] # "."
        THEN SubSeq(p, 1, dot - 1)
        ELSE p

TranscriptSuffix ==
    <<"_", "t", "r", "a", "n", "s", "c", "r", "i", "p", "t", ".", "t", "x", "t">>

\* f"{base_name}_transcript.txt"
OutputFile(audio_file) == SplitExtRoot(audio_file) \o TranscriptSuffix

\* fnmatch of one path component; only the wildcard * is modelled
RECURSIVE FnMatch(_, _)
FnMatch(pat, s) ==
    IF pat = <<>> THEN s = <<>>
    ELSE IF Head(pat) = "*"
         THEN FnMatch(Tail(pat), s) \/ (s # <<>> /\ FnMatch(pat, Tail(s)))
         ELSE s # <<>> /\ Head(s) = Head(pat) /\ FnMatch(Tail(pat), Tail(s))

\* glob: a pattern matches a hidden file only if it starts with a dot
GlobMatch(pat, s) ==
    /\ FnMatch(pat, s)
    /\ (s # <<>> /\ Head(s) = ".") => (pat # <<>> /\ Head(pat) = ".")

\* every enumeration order of a set
Perms(S) ==
    { f \in [1..Cardinality(S) -> S] :
        \A i, j \in 1..Cardinality(S) : i # j => f[i] # f[j] }

\* tempfile.mktemp(suffix='.wav'): the n-th fresh name
MkTemp(n) == <<"/", "t", Digits[n], ".", "w", "a", "v">>

NoFile == [exists |-> FALSE, data |-> <<>>]
File(text) == [exists |-> TRUE, data |-> text]

OutNames == { OutputFile(n) : n \in Names }

(***************************************************************************)
(* State                                                                   *)
(***************************************************************************)
VARIABLES
    argv,       \* parsed command line: batch, audio_file, pattern
    cwd,        \* audio files present in the working directory
    host,       \* what the locator's checks find on this host
    outFs,      \* transcript files: output name -> NoFile or File(text)
    outFs0,     \* outFs as it was when the program started
    tmpFs,      \* temporary files that exist on disk
    nextTmp,    \* index of the next name mktemp hands out
    pc,         \* position in the program
    mode,       \* "batch" or "single": who called transcribe_audio
    globArg,    \* file_pattern as passed to transcribe_multiple_files
    files,      \* the list glob returned
    idx,        \* position of the batch loop in files (1-based)
    results,    \* transcripts returned so far in this batch run, by position
    call,       \* locals and history of the current transcribe_audio call
    stdout      \* lines printed by main

vars == <<argv, cwd, host, outFs, outFs0, tmpFs, nextTmp, pc, mode, globArg,
          files, idx, results, call, stdout>>

env == <<argv, cwd, host, outFs0>>
batchVars == <<globArg, files, idx, results>>

\* ffmpeg_paths, in the order the locator tries them
ffmpeg_paths ==
    << "ffmpeg",
       "node_modules/ffmpeg-static/ffmpeg.exe",
       "node_modules/ffmpeg-static/ffmpeg" >>

\* what `ffmpeg -version` does on this host:
\*   "ok"      exit status 0
\*   "nonzero" non-zero exit status (CalledProcessError)
\*   "absent"  no such command (FileNotFoundError)
\*   "noexec"  the command cannot be executed (PermissionError, an OSError
\*             that the inner except clause does not name)
PathProbes == {"ok", "nonzero", "absent", "noexec"}

\* what running the conversion command does:
\*   "ok"           exit status 0, destination written
\*   "fail_nofile"  non-zero exit status, destination not written
\*   "fail_partial" non-zero exit status after the destination was opened
\*   "raise"        the command could not be started
ConvOutcomes == {"ok", "fail_nofile", "fail_partial", "raise"}

\* what open(output_file, 'w') followed by f.write does
WriteOutcomes == {"ok", "open_fail", "write_fail"}

NoCall ==
    [ path     |-> <<>>,    \* audio_file_path
      tmp      |-> <<>>,    \* temp_wav_path, <<>> for None
      wav      |-> <<>>,    \* wav_path
      probed   |-> <<>>,    \* candidates the locator checked, in order
      cmd      |-> "",      \* ffmpeg_cmd, "" for None
      conv     |-> "none",  \* how the conversion step ended
      convRuns |-> 0,       \* conversion commands run
      loads    |-> 0,       \* whisper.load_model calls
      inferOn  |-> <<>>,    \* the path model.transcribe was given
      raw      |-> <<>>,    \* result["text"]
      ret      |-> <<>>,    \* the value returned
      outcome  |-> "none",  \* how the call ended
      unlinkFailed |-> FALSE ] \* an os.unlink of the temporary file raised

Truthy(has, s) == has /\ s # <<>>

Init ==
    /\ argv \in [ batch       : BOOLEAN,
                  has_file    : BOOLEAN,
                  audio_file  : Positionals \cup {<<>>},
                  has_pattern : BOOLEAN,
                  pattern     : Patterns ]
    /\ argv.has_file = (argv.audio_file # <<>>)
    /\ ~argv.has_pattern => argv.pattern = <<>>
    /\ cwd \in { S \in SUBSET Names : Cardinality(S) <= MaxFiles }
    /\ host \in [ ffmpeg : PathProbes, exe : BOOLEAN, bin : BOOLEAN ]
    /\ outFs \in [ OutNames -> {NoFile, File(OldText)} ]
    /\ outFs0 = outFs
    /\ tmpFs = {}
    /\ nextTmp = 1
    /\ pc = "main"
    /\ mode = "none"
    /\ globArg = <<>>
    /\ files = <<>>
    /\ idx = 0
    /\ results = <<>>
    /\ call = NoCall
    /\ stdout = <<>>

(***************************************************************************)
(* main                                                                    *)
(***************************************************************************)
\* entering transcribe_audio(p)
StartCall(p) ==
    /\ call' = [NoCall EXCEPT !.path = p]
    /\ pc' = "ta_exists"

\* if args.batch: transcribe_multiple_files(args.pattern, args.model)
MainBatch ==
    /\ pc = "main"
    /\ argv.batch
    /\ mode' = "batch"
    /\ globArg' = IF argv.has_pattern THEN argv.pattern ELSE <<>>
    /\ pc' = "glob"
    /\ UNCHANGED <<env, outFs, tmpFs, nextTmp, files, idx, results, call, stdout>>

\* elif args.audio_file: transcript = transcribe_audio(args.audio_file, ...)
MainSingle ==
    /\ pc = "main"
    /\ ~argv.batch
    /\ Truthy(argv.has_file, argv.audio_file)
    /\ mode' = "single"
    /\ StartCall(argv.audio_file)
    /\ UNCHANGED <<env, outFs, tmpFs, nextTmp, batchVars, stdout>>

\* else: transcribe_multiple_files(model_size=args.model)
MainDefault ==
    /\ pc = "main"
    /\ ~argv.batch
    /\ ~Truthy(argv.has_file, argv.audio_file)
    /\ mode' = "batch"
    /\ globArg' = <<>>
    /\ pc' = "glob"
    /\ UNCHANGED <<env, outFs, tmpFs, nextTmp, files, idx, results, call, stdout>>

\* print(transcript)
MainPrint ==
    /\ pc = "ta_ret"
    /\ mode = "single"
    /\ stdout' = Append(stdout, call.ret)
    /\ pc' = "done"
    /\ UNCHANGED <<env, outFs, tmpFs, nextTmp, mode, batchVars, call>>

(***************************************************************************)
(* transcribe_multiple_files                                               *)
(***************************************************************************)
\* the pattern handed to glob.glob
EffectivePattern(file_pattern) ==
    IF file_pattern # <<>> THEN file_pattern ELSE <<"*", ".", "m", "p", "3">>

\* glob.glob(pattern), as a set
Glob(pattern) == { f \in cwd : GlobMatch(pattern, f) }

\* if not files: return
GlobEmpty ==
    /\ pc = "glob"
    /\ Glob(EffectivePattern(globArg)) = {}
    /\ files' = <<>>
    /\ pc' = "done"
    /\ UNCHANGED <<env, outFs, tmpFs, nextTmp, mode, globArg, idx, results, call, stdout>>

\* files = glob.glob(...), in whatever order the directory is listed
GlobFound ==
    /\ pc = "glob"
    /\ Glob(EffectivePattern(globArg)) # {}
    /\ files' \in Perms(Glob(EffectivePattern(globArg)))
    /\ idx' = 1
    /\ pc' = "loop"
    /\ UNCHANGED <<env, outFs, tmpFs, nextTmp, mode, globArg, results, call, stdout>>

\* for audio_file in files: transcript = transcribe_audio(audio_file, ...)
LoopNext ==
    /\ pc = "loop"
    /\ idx <= Len(files)
    /\ StartCall(files[idx])
    /\ UNCHANGED <<env, outFs, tmpFs, nextTmp, mode, batchVars, stdout>>

\* the loop is exhausted
LoopEnd ==
    /\ pc = "loop"
    /\ idx > Len(files)
    /\ pc' = "done"
    /\ UNCHANGED <<env, outFs, tmpFs, nextTmp, mode, batchVars, call, stdout>>

\* variant: the transcript is written without the `if transcript:` test
ShouldWrite_Always(transcript) == TRUE

\* if transcript:
ShouldWrite(transcript) == transcript # <<>>

\* variant: the file is opened with mode 'a'
WriteText_Append(old, transcript) == File(old.data \o transcript)

\* open(output_file, 'w') ... f.write(transcript): the file after a full write
WriteText(old, transcript) == File(transcript)

\* with open(output_file, 'w') as f: f.write(transcript)
\* Neither call is inside a try: a failure leaves the function by exception.
BatchWrite ==
    /\ pc = "ta_ret"
    /\ mode = "batch"
    /\ ShouldWrite(call.ret)
    /\ \E o \in WriteOutcomes :
         LET out == OutputFile(files[idx]) IN
         CASE o = "ok" ->
                /\ outFs' = [outFs EXCEPT ![out] = WriteText(outFs[out], call.ret)]
                /\ results' = Append(results, call.ret)
                /\ idx' = idx + 1
                /\ pc' = "loop"
           [] o = "open_fail" ->
                /\ outFs' = outFs
                /\ UNCHANGED <<results, idx>>
                /\ pc' = "raised"
           [] o = "write_fail" ->
                /\ outFs' = [outFs EXCEPT ![out] = File(<<>>)]
                /\ UNCHANGED <<results, idx>>
                /\ pc' = "raised"
    /\ UNCHANGED <<env, tmpFs, nextTmp, mode, globArg, files, call, stdout>>

\* else: print("No transcript generated ...")
BatchSkip ==
    /\ pc = "ta_ret"
    /\ mode = "batch"
    /\ ~ShouldWrite(call.ret)
    /\ results' = Append(results, call.ret)
    /\ idx' = idx + 1
    /\ pc' = "loop"
    /\ UNCHANGED <<env, outFs, tmpFs, nextTmp, mode, globArg, files, call, stdout>>

(***************************************************************************)
(* convert_mp3_to_wav                                                      *)
(***************************************************************************)
\* the check the locator applies to candidate i: for 'ffmpeg' a
\* `-version` run that exits 0, for the others os.path.exists
CandidatePasses(i) ==
    CASE i = 1 -> host.ffmpeg = "ok"
      [] i = 2 -> host.exe
      [] i = 3 -> host.bin

\* the `-version` run raised something other than CalledProcessError or
\* FileNotFoundError: the loop is left through the outer except clause
ProbeEscapes(i) == i = 1 /\ host.ffmpeg = "noexec"

\* the for loop over ffmpeg_paths, from candidate i on:
\* ffmpeg_cmd ("" for None), the candidates checked, and whether it raised
RECURSIVE FindFfmpegFrom(_, _)
FindFfmpegFrom(i, probed) ==
    IF i > Len(ffmpeg_paths)
    THEN [cmd |-> "", probed |-> probed, raised |-> FALSE]
    ELSE LET seen == Append(probed, ffmpeg_paths[i]) IN
         IF ProbeEscapes(i)
         THEN [cmd |-> "", probed |-> seen, raised |-> TRUE]
         ELSE IF CandidatePasses(i)
              THEN [cmd |-> ffmpeg_paths[i], probed |-> seen, raised |-> FALSE]
              ELSE FindFfmpegFrom(i + 1, seen)

FindFfmpeg == FindFfmpegFrom(1, <<>>)

\* leaving transcribe_audio with value v
Return(v, how) ==
    /\ call' = [call EXCEPT !.ret = v, !.outcome = how]
    /\ pc' = "ta_ret"

\* the locator; `if not ffmpeg_cmd: return False`, and the outer
\* `except Exception: return False`.  The caller then returns "".
CV_Locate ==
    /\ pc = "cv_locate"
    /\ LET r == FindFfmpeg IN
         IF r.raised
         THEN /\ call' = [call EXCEPT !.probed = r.probed, !.conv = "error",
                                      !.ret = <<>>, !.outcome = "conv_error"]
              /\ pc' = "ta_ret"
         ELSE IF r.cmd = ""
              THEN /\ call' = [call EXCEPT !.probed = r.probed, !.conv = "notfound",
                                           !.ret = <<>>, !.outcome = "conv_notfound"]
                   /\ pc' = "ta_ret"
              ELSE /\ call' = [call EXCEPT !.probed = r.probed, !.cmd = r.cmd]
                   /\ pc' = "cv_run"
    /\ UNCHANGED <<env, outFs, tmpFs, nextTmp, mode, batchVars, stdout>>

\* variant: the return code is not tested
ConvertOk_Always(o) == TRUE

\* result.returncode == 0
ConvertOk(o) == o = "ok"

\* the conversion left something at the destination path
ConvertWrote(o) == o \in {"ok", "fail_partial"}

\* subprocess.run(cmd, ...) and the test of its return code; on False
\* the caller returns "" at once
CV_Run ==
    /\ pc = "cv_run"
    /\ \E o \in ConvOutcomes :
         /\ tmpFs' = IF ConvertWrote(o) THEN tmpFs \cup {call.tmp} ELSE tmpFs
         /\ IF ConvertOk(o)
            THEN /\ call' = [call EXCEPT !.convRuns = @ + 1, !.conv = o,
                                         !.wav = call.tmp]
                 /\ pc' = "ta_load"
            ELSE /\ call' = [call EXCEPT !.convRuns = @ + 1, !.conv = o,
                                         !.ret = <<>>,
                                         !.outcome = IF o = "raise" THEN "conv_error"
                                                     ELSE "conv_failed"]
                 /\ pc' = "ta_ret"
    /\ UNCHANGED <<env, outFs, nextTmp, mode, batchVars, stdout>>

(***************************************************************************)
(* transcribe_audio                                                        *)
(***************************************************************************)
\* variant: the existence check is missing
PathExists_Always(p) == TRUE

\* os.path.exists(audio_file_path)
PathExists(p) == p \in cwd

\* if not os.path.exists(audio_file_path): return ""
TA_Exists ==
    /\ pc = "ta_exists"
    /\ IF PathExists(call.path)
       THEN /\ pc' = "ta_ext"
            /\ call' = call
       ELSE Return(<<>>, "missing")
    /\ UNCHANGED <<env, outFs, tmpFs, nextTmp, mode, batchVars, stdout>>

\* temp_wav_path = None; wav_path = audio_file_path;
\* if ...endswith('.mp3'): temp_wav_path = tempfile.mktemp(suffix='.wav')
TA_Ext ==
    /\ pc = "ta_ext"
    /\ IF IsMp3(call.path)
       THEN /\ call' = [call EXCEPT !.tmp = MkTemp(nextTmp), !.wav = call.path]
            /\ nextTmp' = nextTmp + 1
            /\ pc' = "cv_locate"
       ELSE /\ call' = [call EXCEPT !.wav = call.path]
            /\ nextTmp' = nextTmp
            /\ pc' = "ta_load"
    /\ UNCHANGED <<env, outFs, tmpFs, mode, batchVars, stdout>>

\* model = whisper.load_model(model_size)
TA_Load ==
    /\ pc = "ta_load"
    /\ \E ok \in BOOLEAN :
         IF ok
         THEN /\ call' = [call EXCEPT !.loads = @ + 1]
              /\ pc' = "ta_infer"
         ELSE /\ call' = [call EXCEPT !.loads = @ + 1, !.outcome = "load_failed"]
              /\ pc' = "ta_except"
    /\ UNCHANGED <<env, outFs, tmpFs, nextTmp, mode, batchVars, stdout>>

\* result = model.transcribe(wav_path)
TA_Infer ==
    /\ pc = "ta_infer"
    /\ \/ \E t \in RawTexts :
            /\ call' = [call EXCEPT !.inferOn = call.wav, !.raw = t]
            /\ pc' = "ta_cleanup"
       \/ /\ call' = [call EXCEPT !.inferOn = call.wav, !.outcome = "infer_raised"]
          /\ pc' = "ta_except"
    /\ UNCHANGED <<env, outFs, tmpFs, nextTmp, mode, batchVars, stdout>>

\* temp_wav_path and os.path.exists(temp_wav_path)
TempPresent == call.tmp # <<>> /\ call.tmp \in tmpFs

\* if temp_wav_path and os.path.exists(temp_wav_path): os.unlink(temp_wav_path)
\* inside the try: an unlink that raises goes to the except clause
TA_Cleanup ==
    /\ pc = "ta_cleanup"
    /\ IF TempPresent
       THEN \E ok \in BOOLEAN :
              IF ok
              THEN /\ tmpFs' = tmpFs \ {call.tmp}
                   /\ call' = call
                   /\ pc' = "ta_extract"
              ELSE /\ tmpFs' = tmpFs
                   /\ call' = [call EXCEPT !.outcome = "unlink_failed",
                                            !.unlinkFailed = TRUE]
                   /\ pc' = "ta_except"
       ELSE /\ tmpFs' = tmpFs
            /\ call' = call
            /\ pc' = "ta_extract"
    /\ UNCHANGED <<env, outFs, nextTmp, mode, batchVars, stdout>>

\* transcript = result["text"].strip(); return transcript if transcript else ""
TA_Extract ==
    /\ pc = "ta_extract"
    /\ LET transcript == Strip(call.raw) IN
         IF transcript # <<>>
         THEN Return(transcript, "success")
         ELSE Return(<<>>, "no_speech")
    /\ UNCHANGED <<env, outFs, tmpFs, nextTmp, mode, batchVars, stdout>>

\* except Exception: ... try: os.unlink(temp_wav_path) except: pass; return ""
TA_Except ==
    /\ pc = "ta_except"
    /\ IF TempPresent
       THEN \E ok \in BOOLEAN :
              /\ tmpFs' = IF ok THEN tmpFs \ {call.tmp} ELSE tmpFs
              /\ call' = [call EXCEPT !.ret = <<>>,
                                       !.unlinkFailed = @ \/ ~ok]
       ELSE /\ tmpFs' = tmpFs
            /\ call' = [call EXCEPT !.ret = <<>>]
    /\ pc' = "ta_ret"
    /\ UNCHANGED <<env, outFs, nextTmp, mode, batchVars, stdout>>

(***************************************************************************)
(* The program                                                             *)
(***************************************************************************)
Next ==
    \/ MainBatch
    \/ MainSingle
    \/ MainDefault
    \/ MainPrint
    \/ GlobEmpty
    \/ GlobFound
    \/ LoopNext
    \/ LoopEnd
    \/ BatchWrite
    \/ BatchSkip
    \/ TA_Exists
    \/ TA_Ext
    \/ CV_Locate
    \/ CV_Run
    \/ TA_Load
    \/ TA_Infer
    \/ TA_Cleanup
    \/ TA_Extract
    \/ TA_Except

Spec == Init /\ [][Next]_vars

(***************************************************************************)
(* Vocabulary of the properties, stated without the code's own helpers     *)
(***************************************************************************)
\* the paths of the model that carry an MP3 extension, in any letter case
Mp3Names == {A_MP3, B_MP3, B_MP3_UPPER, Z_MP3}

A_TRANSCRIPT == <<"a">> \o TranscriptSuffix
B_TRANSCRIPT == <<"b">> \o TranscriptSuffix

\* <input-name-without-extension>_transcript.txt
ExpectedOutput(n) == IF n \in {A_MP3, A_WAV} THEN A_TRANSCRIPT ELSE B_TRANSCRIPT

Range(s) == { s[i] : i \in 1..Len(s) }

\* r is text with its leading and trailing whitespace removed
IsTrimmed(r, text) ==
    \E i, j \in 0..Len(text) :
        /\ i + Len(r) + j = Len(text)
        /\ \A k \in 1..i : text[k] \in Whitespace
        /\ \A k \in (Len(text) - j + 1)..Len(text) : text[k] \in Whitespace
        /\ \A k \in 1..Len(r) : r[k] = text[i + k]
        /\ r # <<>> => (r[1] \notin Whitespace /\ r[Len(r)] \notin Whitespace)

\* a transcribe_audio call is under way or has just returned
InCall == call.path # <<>>

\* the batch inputs whose transcript of this run is known, and that transcript
Handled ==
    (1..Len(results)) \cup
    (IF mode = "batch" /\ pc \in {"ta_ret", "raised"} THEN {idx} ELSE {})

TranscriptOf(i) == IF i <= Len(results) THEN results[i] ELSE call.ret

\* the batch run has returned normally
BatchCompleted == mode = "batch" /\ pc = "done"

(***************************************************************************)
(* C1                                                                      *)
(***************************************************************************)
\* C1: once transcribe_audio has returned for an existing MP3 input, the
\* temporary WAV file of that call does not exist, whatever the outcome
\* (the outcomes in which a deletion itself failed are left aside).
C1_TempGoneAfterReturn ==
    (pc = "ta_ret" /\ call.path \in cwd /\ call.path \in Mp3Names
        /\ ~call.unlinkFailed)
    => call.tmp \notin tmpFs

(***************************************************************************)
(* C2                                                                      *)
(***************************************************************************)
\* C2: for a path that does not exist the call returns the empty string,
\* and during the call the model is never loaded, the converter is never
\* probed or run, and no temporary file is named or created.
C2_MissingInput ==
    (InCall /\ call.path \notin cwd)
    => /\ call.loads = 0
       /\ call.probed = <<>>
       /\ call.convRuns = 0
       /\ call.inferOn = <<>>
       /\ call.tmp = <<>>
       /\ tmpFs = {}
       /\ nextTmp = 1
       /\ pc \in {"ta_exists", "ta_ret", "done"}
       /\ pc \in {"ta_ret", "done"} => call.ret = <<>>

C2_Witness ==
    /\ pc = "ta_ret"
    /\ call.path = Z_MP3
    /\ call.path \notin cwd
    /\ call.ret = <<>>

(***************************************************************************)
(* C3                                                                      *)
(***************************************************************************)
\* C3: when the conversion step fails (no candidate found, non-zero exit,
\* or the command could not be run) the call returns the empty string, the
\* model is not loaded for that input, and the conversion command is run at
\* most once, with the one candidate the locator chose.
C3_ConversionFailureStops ==
    /\ call.convRuns <= 1
    /\ call.convRuns = 1 => call.cmd = ffmpeg_paths[Len(call.probed)]
    /\ (InCall /\ call.conv \notin {"none", "ok"})
       => /\ call.loads = 0
          /\ call.inferOn = <<>>
          /\ call.ret = <<>>
          /\ call.conv = "notfound" => call.convRuns = 0
          /\ pc \in {"ta_ret", "loop", "done"}

C3_Witness ==
    /\ pc = "ta_ret"
    /\ call.conv \in {"fail_nofile", "fail_partial"}
    /\ call.convRuns = 1
    /\ call.ret = <<>>

(***************************************************************************)
(* C4                                                                      *)
(***************************************************************************)
\* C4 as stated: after a completed batch run, every matched input with a
\* non-empty transcript has its output file holding exactly that transcript.
C4_OwnTranscript ==
    BatchCompleted
    => \A i \in 1..Len(files) :
          results[i] # <<>>
          => outFs[ExpectedOutput(files[i])] = File(results[i])

\* the last matched input, in enumeration order, that writes to the output
\* file of input i
LastWriter(i) ==
    CHOOSE j \in 1..Len(files) :
        /\ ExpectedOutput(files[j]) = ExpectedOutput(files[i])
        /\ results[j] # <<>>
        /\ \A k \in (j+1)..Len(files) :
              ExpectedOutput(files[k]) = ExpectedOutput(files[i]) => results[k] = <<>>

\* C4 amended: after a completed batch run, for every matched input with a
\* non-empty transcript the output file exists and holds exactly the
\* transcript of the last matched input, in enumeration order, that has the
\* same name-without-extension and a non-empty transcript (the input's own
\* transcript when no later input shares its name), whatever the file held
\* before the run.
C4_LastWriterWins ==
    BatchCompleted
    => \A i \in 1..Len(files) :
          results[i] # <<>>
          => outFs[ExpectedOutput(files[i])] = File(results[LastWriter(i)])

C4_Witness ==
    /\ BatchCompleted
    /\ Len(files) = 2
    /\ ExpectedOutput(files[1]) # ExpectedOutput(files[2])
    /\ results[1] # <<>>
    /\ results[2] # <<>>
    /\ results[1] # results[2]
    /\ outFs0[ExpectedOutput(files[1])] = File(OldText)
    /\ outFs[ExpectedOutput(files[1])] = File(results[1])
    /\ outFs[ExpectedOutput(files[2])] = File(results[2])

(***************************************************************************)
(* C5                                                                      *)
(***************************************************************************)
\* C5: transcribe_audio always returns: the empty string for every failure
\* class and for no speech; a non-empty string only after a successful
\* inference, and then the model's text with leading and trailing
\* whitespace removed.  The only abnormal end of the program comes after a
\* call has returned a transcript.
C5_NeverPropagates ==
    /\ pc = "ta_ret"
       => /\ call.outcome \in {"missing", "conv_notfound", "conv_failed",
                               "conv_error", "load_failed", "infer_raised",
                               "unlink_failed", "no_speech", "success"}
          /\ call.outcome # "success" => call.ret = <<>>
          /\ call.outcome = "no_speech"
             => \A k \in 1..Len(call.raw) : call.raw[k] \in Whitespace
          /\ call.outcome = "success" => call.ret # <<>>
          /\ call.ret # <<>>
             => /\ call.outcome = "success"
                /\ call.inferOn # <<>>
                /\ IsTrimmed(call.ret, call.raw)
    /\ pc = "raised" => (mode = "batch" /\ call.outcome = "success")

C5_Witness ==
    /\ pc = "ta_ret"
    /\ call.outcome = "success"
    /\ call.raw = <<" ", "x", "\n">>
    /\ call.ret = <<"x">>

(***************************************************************************)
(* C6                                                                      *)
(***************************************************************************)
\* C6: a batch run always ends normally with every matched file processed,
\* whatever failed while one of the files was handled.
C6_BatchAlwaysCompletes ==
    (mode = "batch" /\ pc \in {"done", "raised"})
    => /\ pc = "done"
       /\ Len(results) = Len(files)

(***************************************************************************)
(* C7                                                                      *)
(***************************************************************************)
\* the candidates that pass their check on this host
Passing == { i \in 1..Len(ffmpeg_paths) : CandidatePasses(i) }

FirstPassing == CHOOSE i \in Passing : \A j \in Passing : i <= j

\* C7: once the locator has run, the candidates checked are a prefix of the
\* fixed list; if some candidate passes its check the first such candidate
\* is the one used and nothing after it was checked; and the conversion
\* returns False without running a command exactly when no candidate passes.
C7_FirstPassingCandidate ==
    call.probed # <<>>
    => /\ call.probed = SubSeq(ffmpeg_paths, 1, Len(call.probed))
       /\ Passing # {}
          => /\ call.cmd = ffmpeg_paths[FirstPassing]
             /\ Len(call.probed) = FirstPassing
       /\ (call.convRuns = 0 /\ call.conv \in {"notfound", "error"})
          <=> Passing = {}

(***************************************************************************)
(* C8                                                                      *)
(***************************************************************************)
\* C8: within one call the steps come in the order existence check,
\* conversion (only for a path with an MP3 extension, in any letter case),
\* model load, inference, deletion of the temporary file.  For an MP3 input
\* the model runs on the temporary file, which exists from the end of the
\* conversion until inference is over; for any other input nothing is
\* probed, converted or allocated and the model runs on the original path.
C8_StepOrder ==
    InCall
    => /\ pc = "ta_exists"
          => (call.probed = <<>> /\ call.loads = 0 /\ call.tmp = <<>>)
       /\ (call.probed # <<>> \/ call.loads > 0 \/ call.tmp # <<>>)
          => call.path \in cwd
       /\ pc \in {"cv_locate", "cv_run"}
          => (call.path \in Mp3Names /\ call.loads = 0 /\ call.inferOn = <<>>)
       /\ pc = "ta_load" => (call.loads = 0 /\ call.inferOn = <<>>)
       /\ call.loads > 0
          => (call.loads = 1 /\ (call.path \in Mp3Names => call.conv = "ok"))
       /\ call.inferOn # <<>> => call.loads = 1
       /\ call.path \in Mp3Names
          => /\ pc \in {"ta_load", "ta_infer"}
                => /\ call.conv = "ok"
                   /\ call.tmp # <<>>
                   /\ call.tmp \in tmpFs
                   /\ call.wav = call.tmp
             /\ call.inferOn # <<>>
                => (call.inferOn = call.tmp /\ call.inferOn # call.path)
             /\ pc = "ta_cleanup" => call.tmp \in tmpFs
       /\ call.path \notin Mp3Names
          => /\ call.probed = <<>>
             /\ call.cmd = ""
             /\ call.convRuns = 0
             /\ call.tmp = <<>>
             /\ call.inferOn # <<>> => call.inferOn = call.path

C8_Witness ==
    /\ pc = "ta_cleanup"
    /\ call.path = B_MP3_UPPER
    /\ call.inferOn = call.tmp
    /\ call.tmp \in tmpFs
    /\ call.loads = 1

(***************************************************************************)
(* C9                                                                      *)
(***************************************************************************)
\* C9: whenever main runs batch processing and --pattern was supplied, the
\* files processed are exactly the files matching that pattern.
C9_SuppliedPatternUsed ==
    (mode = "batch" /\ pc \notin {"main", "glob"} /\ argv.has_pattern)
    => Range(files) = { f \in cwd : GlobMatch(argv.pattern, f) }

(***************************************************************************)
(* C10                                                                     *)
(***************************************************************************)
\* a run whose glob matched nothing wrote nothing, probed nothing and
\* loaded nothing
EmptyRunIsInert ==
    (BatchCompleted /\ files = <<>>)
    => /\ outFs = outFs0
       /\ tmpFs = {}
       /\ nextTmp = 1
       /\ call = NoCall

\* C10 as stated: the output file of a matched input whose transcript is
\* empty is as it was before the run; and an empty run is inert.
C10_EmptyTranscriptFrame ==
    /\ mode = "batch"
       => \A i \in Handled :
             TranscriptOf(i) = <<>>
             => outFs[ExpectedOutput(files[i])] = outFs0[ExpectedOutput(files[i])]
    /\ EmptyRunIsInert

\* C10 amended: an output file is neither created, truncated nor modified
\* when every matched input handled so far that has its name-without-
\* extension produced an empty transcript (it is written only on behalf of
\* an input whose transcript is non-empty, which may be another input with
\* the same name-without-extension); and an empty run is inert.
C10_NoWriterNoChange ==
    /\ mode = "batch"
       => \A o \in OutNames :
             (\A i \in Handled :
                 ExpectedOutput(files[i]) = o => TranscriptOf(i) = <<>>)
             => outFs[o] = outFs0[o]
    /\ EmptyRunIsInert

C10_Witness ==
    /\ BatchCompleted
    /\ Len(files) = 2
    /\ results[1] = <<>>
    /\ results[2] # <<>>
    /\ ExpectedOutput(files[1]) # ExpectedOutput(files[2])
    /\ outFs0[ExpectedOutput(files[1])] = File(OldText)
    /\ outFs[ExpectedOutput(files[1])] = File(OldText)

====
